---- MODULE Spec2Model ----
(***************************************************************************)
(* Team drawer: the quota planner, the pool distributor and the constraint *)
(* repair engine of streamlit_app.py, and the planner and distributor of   *)
(* app.py, as a state machine.                                             *)
(*                                                                         *)
(* Python lists are sequences (index idx of the code is idx + 1 here);     *)
(* per-team tables (targets, remaining_capacity, teams) are functions on   *)
(* the team indices 0 .. 7 of the code.  Every draw from the seeded random *)
(* stream is a nondeterministic choice over all the values it can return.  *)
(***************************************************************************)
EXTENDS Integers, Sequences, FiniteSets, TLC

VARIABLES
    pc,                 \* position in assign_members_to_teams
    variant,            \* "streamlit" (streamlit_app.py) or "desktop" (app.py)
    leaders,            \* the captain list, a sequence of [name, gender]
    ob_list,            \* the veteran pool (names), consumed by pop_many
    yb_list,            \* the rookie pool
    girls_list,         \* the "other" pool
    seed,               \* the explicit integer seed
    input,              \* the arguments as they were passed: the three pools (and input.teams,
                        \* the roster, when a repair function is called on its own)
    remaining_capacity, \* compute_balanced_targets: seats left per team
    targets,            \* the quota map
    teams,              \* teams[i] = members of team i, a sequence of [name, group]
    desired,            \* desired_girls/yb/ob_by_team of the repair stage
    outcome,            \* "running", "returned" or the error raised
    inclusion_calls,    \* how many times enforce_inclusion_pair was called
    room_size,          \* assign_rooms: the preferred room size
    male_pool,          \* assign_rooms: the deduplicated, shuffled male pool
    female_pool,        \* assign_rooms: the deduplicated, shuffled female pool
    male_rooms,         \* assign_rooms: the rooms returned for the male pool
    female_rooms,       \* assign_rooms: the rooms returned for the female pool
    room_total,         \* build_room_sizes on its own: the argument total
    room_sizes,         \* build_room_sizes on its own: the list returned
    app                 \* TeamDrawerApp: self.teams, the status line, the timer callbacks

\* what assign_rooms computes
room_vars == <<room_size, male_pool, female_pool, male_rooms, female_rooms,
               room_total, room_sizes>>

vars == <<pc, variant, leaders, ob_list, yb_list, girls_list, seed, input,
          remaining_capacity, targets, teams, desired, outcome, inclusion_calls,
          room_size, male_pool, female_pool, male_rooms, female_rooms,
          room_total, room_sizes, app>>

-----------------------------------------------------------------------------
(* Bounds of the model and constants of the program. *)

NumTeams == 8            \* the only captain count assign_members_to_teams accepts
NumMale == 4             \* and the only gender split
MaxOb == 1               \* planner runs: veteran pool sizes 0 .. MaxOb
MaxYb == 1               \* planner runs: rookie pool sizes 0 .. MaxYb
MaxGirls == 8            \* planner runs: other pool sizes 0 .. MaxGirls

MaxCrowd == 1            \* whole runs: unnamed veterans 0 .. MaxCrowd
MaxPeople == 2           \* whole runs with few people: people in the pools

DefaultRoomSize == 4      \* assign_rooms(..., room_size: int = 4, ...)
MinRoomSize == 2          \* the room size input accepts 2 .. 6
MaxRoomSize == 6
MaxTotal == 14            \* build_room_sizes on its own: total in 0 .. MaxTotal
MaxFill == 3              \* the repair on its own: anonymous members of a roster
MaxPool == 9              \* the desktop planner on its own: each pool has 0 .. MaxPool names
MaxDraws == 2             \* the window: the button "start draw" is pressed at most MaxDraws times
MaxLoaded == 2            \* the window: the data loaded has 0 .. MaxLoaded people
SpinFrames == 6           \* the names one spin shows, app.py line 385 to 388
MaxPlain == 2             \* runs that name nobody: each pool has 0 .. MaxPlain people

Teams == 0 .. (NumTeams - 1)

\* The three individuals named by the special rules.  The program's
\* literals are Korean; they are romanised here.
NoSihyeon == "NoSihyeon"
BaeYeongyeong == "BaeYeongyeong"
LeeJinwon == "LeeJinwon"
Anon == "x"              \* any other name

Min(a, b) == IF a < b THEN a ELSE b
Max(a, b) == IF a > b THEN a ELSE b

RECURSIVE SumOver(_, _)
SumOver(f, S) ==
    IF S = {} THEN 0
    ELSE LET i == CHOOSE j \in S : TRUE IN f[i] + SumOver(f, S \ {i})

\* [i for i in range(num_teams) if i in S], as a sequence
RECURSIVE Ascending(_)
Ascending(S) ==
    IF S = {} THEN <<>>
    ELSE LET m == CHOOSE x \in S : \A y \in S : x <= y
         IN <<m>> \o Ascending(S \ {m})

Perms(S) ==
    {p \in [1 .. Cardinality(S) -> S] : \A a, b \in 1 .. Cardinality(S) : a # b => p[a] # p[b]}

\* rng.shuffle(idx) for a list idx of team indices that a round robin reads
\* afterwards.  The round robin acts only on the entries of `live` (the teams
\* that still have room) and skips every other entry without effect, so the
\* outcomes are all orders of the live entries; the entries it skips are
\* listed after them.
Shuffles(idx, live) ==
    {p \o Ascending(idx \ live) : p \in Perms(idx \cap live)}

SubsetsOfSize(S, n) == {T \in SUBSET S : Cardinality(T) = n}

male_leader_idx(ld) == {i \in Teams : ld[i + 1].gender = "M"}
female_leader_idx(ld) == {i \in Teams : ld[i + 1].gender = "F"}

-----------------------------------------------------------------------------
(* compute_balanced_targets, streamlit_app.py *)

ZeroTargets == [i \in Teams |-> [ob |-> 0, yb |-> 0, girls |-> 0]]

\* a capacity step that forgets the `remainder` teams
InitialCapacityFlat(total, extra_indices) == [i \in Teams |-> total \div NumTeams]

\* remaining_capacity after the capacity step, extra_indices being the sample
InitialCapacity(total, extra_indices) ==
    [i \in Teams |-> (total \div NumTeams) + (IF i \in extra_indices THEN 1 ELSE 0)]

\* girls_targets before the correction to girls_count, capped by capacity
CappedGirlsTargets(ld, girls_count, cap, extra_female_indices) ==
    LET fem == female_leader_idx(ld)
        base_f == (girls_count + Cardinality(fem)) \div NumTeams
    IN [i \in Teams |->
          Min(Max(0, base_f + (IF i \in extra_female_indices THEN 1 ELSE 0)
                     - (IF i \in fem THEN 1 ELSE 0)),
              cap[i])]

\* the round robin that hands the shortfall to teams with room left
RECURSIVE FillGirls(_, _, _, _, _)
FillGirls(gt, cap, need, fill_order, ptr) ==
    IF need > 0 /\ \E i \in Teams : cap[i] - gt[i] > 0
    THEN LET team_i == fill_order[(ptr % Len(fill_order)) + 1]
         IN IF cap[team_i] - gt[team_i] > 0
            THEN FillGirls([gt EXCEPT ![team_i] = @ + 1], cap, need - 1, fill_order, ptr + 1)
            ELSE FillGirls(gt, cap, need, fill_order, ptr + 1)
    ELSE gt

\* the round robin that takes the excess back
RECURSIVE ReduceGirls(_, _, _, _)
ReduceGirls(gt, over, reduce_order, ptr) ==
    IF over > 0 /\ \E i \in Teams : gt[i] > 0
    THEN LET team_i == reduce_order[(ptr % Len(reduce_order)) + 1]
         IN IF gt[team_i] > 0
            THEN ReduceGirls([gt EXCEPT ![team_i] = @ - 1], over - 1, reduce_order, ptr + 1)
            ELSE ReduceGirls(gt, over, reduce_order, ptr + 1)
    ELSE gt

\* step 1 of allocate_group_even: every team takes min(base, room left)
BaseAllocation(count, cap) ==
    [i \in Teams |-> Min(count \div NumTeams, Max(0, cap[i]))]

LeftAfterBase(count, cap) ==
    count - SumOver(BaseAllocation(count, cap), Teams)

\* step 2 of allocate_group_even: the round robin over order from ptr
RECURSIVE RoundRobin(_, _, _, _, _, _)
RoundRobin(tg, cap, left, order, ptr, key) ==
    IF left > 0 /\ \E i \in Teams : cap[i] > 0
    THEN LET team_i == order[(ptr % Len(order)) + 1]
         IN IF cap[team_i] > 0
            THEN RoundRobin([tg EXCEPT ![team_i][key] = @ + 1],
                            [cap EXCEPT ![team_i] = @ - 1],
                            left - 1, order, ptr + 1, key)
            ELSE RoundRobin(tg, cap, left, order, ptr + 1, key)
    ELSE [targets |-> tg, remaining_capacity |-> cap]

\* a round robin that does not count `left` down: when a remainder is left,
\* every team with room gets one place more
allocate_group_generous(tg, cap, count, order, ptr, key) ==
    IF count <= 0 THEN [targets |-> tg, remaining_capacity |-> cap]
    ELSE LET give == BaseAllocation(count, cap)
             more == [i \in Teams |->
                        IF LeftAfterBase(count, cap) > 0 /\ cap[i] - give[i] > 0 THEN 1 ELSE 0]
         IN [targets |-> [i \in Teams |-> [tg[i] EXCEPT ![key] = @ + give[i] + more[i]]],
             remaining_capacity |-> [i \in Teams |-> cap[i] - give[i] - more[i]]]

\* allocate_group_even without its round robin: the remainder is not placed
allocate_group_base_only(tg, cap, count, order, ptr, key) ==
    IF count <= 0 THEN [targets |-> tg, remaining_capacity |-> cap]
    ELSE LET give == BaseAllocation(count, cap)
         IN [targets |-> [i \in Teams |-> [tg[i] EXCEPT ![key] = @ + give[i]]],
             remaining_capacity |-> [i \in Teams |-> cap[i] - give[i]]]

allocate_group_even(tg, cap, count, order, ptr, key) ==
    IF count <= 0 THEN [targets |-> tg, remaining_capacity |-> cap]
    ELSE LET give == BaseAllocation(count, cap)
             tg1 == [i \in Teams |-> [tg[i] EXCEPT ![key] = @ + give[i]]]
             cap1 == [i \in Teams |-> cap[i] - give[i]]
             left == LeftAfterBase(count, cap)
         IN IF left <= 0 THEN [targets |-> tg1, remaining_capacity |-> cap1]
            ELSE RoundRobin(tg1, cap1, left, order, ptr, key)

\* ptr = rng.randrange(len(order)), drawn only when a remainder is left to
\* place.  The round robin skips the entries without room, so a start at such
\* an entry is the start at the next entry with room: the draws are listed as
\* the starts at entries with room.
PtrDraws(count, cap, order) ==
    LET cap1 == [i \in Teams |-> cap[i] - BaseAllocation(count, cap)[i]]
        starts == {p \in 0 .. (Len(order) - 1) : cap1[order[p + 1]] > 0}
    IN IF count > 0 /\ LeftAfterBase(count, cap) > 0 /\ starts # {} THEN starts ELSE {0}

-----------------------------------------------------------------------------
(* compute_group_targets, app.py *)

\* extra places that go round the first teams again instead of the others
ExtraPlacesPiled(rem, first, others) ==
    [i \in Teams |->
        Cardinality({k \in 0 .. (rem - 1) : first[(k % Len(first)) + 1] = i})]

\* extra places handed out in team order, whoever the captain is
ExtraPlacesInTeamOrder(rem, first, others) ==
    [i \in Teams |-> IF i < rem THEN 1 ELSE 0]

\* the `rem` extra places of one group: first[:rem] one each, then the rest
\* round robin over the other teams in index order
ExtraPlaces(rem, first, others) ==
    [i \in Teams |->
        (IF \E k \in 1 .. Min(rem, Len(first)) : first[k] = i THEN 1 ELSE 0)
        + (IF rem > Len(first)
           THEN Cardinality({k \in 0 .. (rem - Len(first) - 1) :
                                others[(k % Len(others)) + 1] = i})
           ELSE 0)]

compute_group_targets(ld, ob_count, yb_count, girls_count) ==
    LET fem == Ascending(female_leader_idx(ld))
        mal == Ascending(male_leader_idx(ld))
        xo == ExtraPlaces(ob_count % NumTeams, fem, Ascending(Teams \ female_leader_idx(ld)))
        xy == ExtraPlaces(yb_count % NumTeams, fem, Ascending(Teams \ female_leader_idx(ld)))
        xg == ExtraPlaces(girls_count % NumTeams, mal, Ascending(Teams \ male_leader_idx(ld)))
    IN [i \in Teams |->
           [ob |-> (ob_count \div NumTeams) + xo[i],
            yb |-> (yb_count \div NumTeams) + xy[i],
            girls |-> (girls_count \div NumTeams) + xg[i]]]

-----------------------------------------------------------------------------
(* Inputs *)

Leader(n, g) == [name |-> n, gender |-> g]
Member(n, g) == [name |-> n, group |-> g]

\* n anonymous captains with the genders gs
AnonLeaders(gs) == [k \in 1 .. Len(gs) |-> Leader(Anon, gs[k])]

\* captain lists that pass the composition check
ValidGenders ==
    { <<"M", "M", "M", "M", "F", "F", "F", "F">>,
      <<"F", "M", "F", "F", "M", "M", "F", "M">> }

\* and captain lists that do not: 7 captains, 9 captains, 8 captains split 5/3 and 3/5
InvalidGenders ==
    { <<"M", "M", "M", "M", "F", "F", "F">>,
      <<"M", "M", "M", "M", "F", "F", "F", "F", "F">>,
      <<"M", "M", "M", "M", "M", "F", "F", "F">>,
      <<"M", "M", "M", "F", "F", "F", "F", "F">> }

AnonPool(n) == [k \in 1 .. n |-> Anon]

RunGenders == { <<"F", "M", "F", "F", "M", "M", "F", "M">> }

\* assign_rooms was not called: room_size at its default, no pool, no room
NoRoomsYet ==
    /\ room_size = DefaultRoomSize
    /\ male_pool = <<>> /\ female_pool = <<>>
    /\ male_rooms = <<>> /\ female_rooms = <<>>
    /\ room_total = 0 /\ room_sizes = <<>>

NoTeams == [i \in Teams |-> <<>>]

\* TeamDrawerApp.__init__: self.teams = [], no draw started, nothing exported
NoApp ==
    [teams |-> <<>>, status |-> "ready", plan |-> NoTeams, chains |-> <<>>,
     exported |-> <<>>, broken |-> FALSE]
NoCounts == [i \in Teams |-> 0]
NoDesired == [girls |-> NoCounts, yb |-> NoCounts, ob |-> NoCounts]

-----------------------------------------------------------------------------
(* assign_members_to_teams: the composition check and the planner call *)

male_count(ld) == Cardinality({k \in 1 .. Len(ld) : ld[k].gender = "M"})
female_count(ld) == Cardinality({k \in 1 .. Len(ld) : ld[k].gender = "F"})

\* the composition check without the check of the gender split
CountOnly(ld) == Len(ld) = NumTeams

ValidComposition(ld) ==
    /\ Len(ld) = NumTeams
    /\ male_count(ld) = NumMale
    /\ female_count(ld) = NumTeams - NumMale

\* the two ValueErrors of the composition check; nothing was touched before them
Validate ==
    /\ pc = "start"
    /\ IF ValidComposition(leaders)
       THEN pc' = "plan" /\ outcome' = outcome
       ELSE pc' = "raised" /\ outcome' = "InvalidCaptainComposition"
    /\ UNCHANGED <<room_vars, app>>
    /\ UNCHANGED <<variant, leaders, ob_list, yb_list, girls_list, seed, input,
                   remaining_capacity, targets, teams, desired, inclusion_calls>>

\* compute_balanced_targets up to remaining_capacity: rng.sample picks the
\* `remainder` teams that get one seat more
PlanCapacity ==
    /\ pc = "plan" /\ variant = "streamlit"
    /\ LET total == Len(ob_list) + Len(yb_list) + Len(girls_list)
       IN \E extra_indices \in SubsetsOfSize(Teams, total % NumTeams) :
              remaining_capacity' = InitialCapacity(total, extra_indices)
    /\ pc' = "plan_girls"
    /\ UNCHANGED <<room_vars, app>>
    /\ UNCHANGED <<variant, leaders, ob_list, yb_list, girls_list, seed, input,
                   targets, teams, desired, outcome, inclusion_calls>>

\* every value girls_targets can have after steps 1) to 3).  male_first_order is
\* shuffled as a whole, so its first rem_f entries are any rem_f teams.
\* reduce_order starts with the shuffled female_leader_idx, but the reduce loop
\* acts only on teams with a positive target.
GirlsTargets(ld, girls_count, cap) ==
    LET total_females == girls_count + Cardinality(female_leader_idx(ld))
        rem_f == total_females % NumTeams
        capped == {CappedGirlsTargets(ld, girls_count, cap, x) :
                     x \in SubsetsOfSize(Teams, rem_f)}
        Outcomes(gt) ==
            LET current_sum == SumOver(gt, Teams)
            IN IF current_sum < girls_count
               THEN {FillGirls(gt, cap, girls_count - current_sum,
                               m \o Ascending(Teams \ male_leader_idx(ld)), 0) :
                        m \in Shuffles(male_leader_idx(ld),
                                       {i \in Teams : cap[i] - gt[i] > 0})}
               ELSE IF current_sum > girls_count
               THEN {ReduceGirls(gt, current_sum - girls_count,
                                 f \o Ascending(Teams \ female_leader_idx(ld)), 0) :
                        f \in Shuffles(female_leader_idx(ld),
                                       {i \in Teams : gt[i] > 0})}
               ELSE {gt}
    IN UNION {Outcomes(gt) : gt \in capped}

\* steps 1) to 3) and the loop that fixes targets[i]["girls"]
PlanGirls ==
    /\ pc = "plan_girls"
    /\ \E girls_targets \in GirlsTargets(leaders, Len(girls_list), remaining_capacity) :
          /\ targets' = [i \in Teams |-> [ZeroTargets[i] EXCEPT !.girls = girls_targets[i]]]
          /\ remaining_capacity' = [i \in Teams |-> remaining_capacity[i] - girls_targets[i]]
    /\ pc' = "plan_male"
    /\ UNCHANGED <<room_vars, app>>
    /\ UNCHANGED <<variant, leaders, ob_list, yb_list, girls_list, seed, input,
                   teams, desired, outcome, inclusion_calls>>

\* step 4): allocate_group_even for yb, then for ob, over
\* order_for_male_groups = female_leader_idx + others_from_female (both shuffled)
MaleTargets(ld, tg, cap, yb_count, ob_count) ==
    LET live == {i \in Teams : cap[i] > 0}
    IN UNION {
        UNION {
          { allocate_group_even(y.targets, y.remaining_capacity, ob_count, f \o o, po, "ob") :
              po \in PtrDraws(ob_count, y.remaining_capacity, f \o o) } :
            y \in { allocate_group_even(tg, cap, yb_count, f \o o, py, "yb") :
                      py \in PtrDraws(yb_count, cap, f \o o) } } :
        f \in Shuffles(female_leader_idx(ld), live),
        o \in Shuffles(Teams \ female_leader_idx(ld), live) }

PlanMale ==
    /\ pc = "plan_male"
    /\ \E r \in MaleTargets(leaders, targets, remaining_capacity, Len(yb_list), Len(ob_list)) :
          /\ targets' = r.targets
          /\ remaining_capacity' = r.remaining_capacity
    /\ pc' = "distribute"
    /\ UNCHANGED <<room_vars, app>>
    /\ UNCHANGED <<variant, leaders, ob_list, yb_list, girls_list, seed, input,
                   teams, desired, outcome, inclusion_calls>>

\* app.py: compute_group_targets draws nothing
DesktopPlan ==
    /\ pc = "plan" /\ variant = "desktop"
    /\ targets' = compute_group_targets(leaders, Len(ob_list), Len(yb_list), Len(girls_list))
    /\ pc' = "distribute"
    /\ UNCHANGED <<room_vars, app>>
    /\ UNCHANGED <<variant, leaders, ob_list, yb_list, girls_list, seed, input,
                   remaining_capacity, teams, desired, outcome, inclusion_calls>>

-----------------------------------------------------------------------------
(* The pool distributor, streamlit_app.py lines 242-265 and app.py 156-181 *)

Count(s, v) == Cardinality({k \in 1 .. Len(s) : s[k] = v})
Range(s) == {s[k] : k \in 1 .. Len(s)}

\* rng.shuffle(s): every order of the entries of s.  Orders that differ only in
\* which of several equal entries stands where are one outcome.
Arrangements(s) ==
    {t \in [1 .. Len(s) -> Range(s)] : \A v \in Range(s) : Count(t, v) = Count(s, v)}

\* the members a pool of names stands for
AsMembers(names, group) == [k \in 1 .. Len(names) |-> Member(names[k], group)]

\* pop_many that returns src[:count] and forgets `del src[:count]`
RECURSIVE PopLoopKeeping(_, _, _, _, _)
PopLoopKeeping(tm, src, tg, key, i) ==
    IF i = NumTeams THEN [ok |-> TRUE, teams |-> tm, src |-> src]
    ELSE LET count == tg[i][key]
         IN IF count <= 0 THEN PopLoopKeeping(tm, src, tg, key, i + 1)
            ELSE IF count > Len(src) THEN [ok |-> FALSE, teams |-> tm, src |-> src]
            ELSE PopLoopKeeping([tm EXCEPT ![i] = @ \o AsMembers(SubSeq(src, 1, count), key)],
                                src, tg, key, i + 1)

\* pop_many that raises for count >= len(src) instead of count > len(src)
RECURSIVE PopLoopStrict(_, _, _, _, _)
PopLoopStrict(tm, src, tg, key, i) ==
    IF i = NumTeams THEN [ok |-> TRUE, teams |-> tm, src |-> src]
    ELSE LET count == tg[i][key]
         IN IF count <= 0 THEN PopLoopStrict(tm, src, tg, key, i + 1)
            ELSE IF count >= Len(src) THEN [ok |-> FALSE, teams |-> tm, src |-> src]
            ELSE PopLoopStrict([tm EXCEPT ![i] = @ \o AsMembers(SubSeq(src, 1, count), key)],
                               SubSeq(src, count + 1, Len(src)), tg, key, i + 1)

\* pop_many for team 0, 1, ... in turn: the loop `for i in range(num_teams):
\* teams[i].members.extend(pop_many(src, targets[i][key]))`.  ok is FALSE when
\* some pop_many raised (count > len(src)); src is what is left of the pool.
RECURSIVE PopLoop(_, _, _, _, _)
PopLoop(tm, src, tg, key, i) ==
    IF i = NumTeams THEN [ok |-> TRUE, teams |-> tm, src |-> src]
    ELSE LET count == tg[i][key]
         IN IF count <= 0 THEN PopLoop(tm, src, tg, key, i + 1)
            ELSE IF count > Len(src) THEN [ok |-> FALSE, teams |-> tm, src |-> src]
            ELSE PopLoop([tm EXCEPT ![i] = @ \o AsMembers(SubSeq(src, 1, count), key)],
                         SubSeq(src, count + 1, Len(src)), tg, key, i + 1)

\* `for team in teams: rng.shuffle(team.members)`
RECURSIVE TeamShuffles(_, _)
TeamShuffles(tm, i) ==
    IF i = NumTeams THEN {tm}
    ELSE UNION {TeamShuffles([tm EXCEPT ![i] = a], i + 1) : a \in Arrangements(tm[i])}

-----------------------------------------------------------------------------
(* enforce_exclusion_pairs and enforce_inclusion_pair *)

\* locate(name): team index, is-leader flag and member index (0 for a leader,
\* the code's idx + 1 for a member); found is FALSE for None
IsIn(tm, ld, i, name) ==
    ld[i + 1].name = name \/ \E k \in 1 .. Len(tm[i]) : tm[i][k].name = name

Locate(tm, ld, name) ==
    IF \E i \in Teams : IsIn(tm, ld, i, name)
    THEN LET i == CHOOSE j \in Teams :
                     IsIn(tm, ld, j, name) /\ \A h \in 0 .. (j - 1) : ~IsIn(tm, ld, h, name)
         IN IF ld[i + 1].name = name
            THEN [found |-> TRUE, team |-> i, is_leader |-> TRUE, idx |-> 0]
            ELSE [found |-> TRUE, team |-> i, is_leader |-> FALSE,
                  idx |-> CHOOSE k \in 1 .. Len(tm[i]) :
                             tm[i][k].name = name
                             /\ \A h \in 1 .. (k - 1) : tm[i][h].name # name]
    ELSE [found |-> FALSE, team |-> 0, is_leader |-> FALSE, idx |-> 0]

team_has_name(tm, ld, i, name) == IsIn(tm, ld, i, name)

\* an assignment of one side only: teams[j].members[b] = teams[i].members[a]
SwapOneWay(tm, i, a, j, b) ==
    [tm EXCEPT ![j][b] = tm[i][a]]

\* teams[i].members[a], teams[j].members[b] = teams[j].members[b], teams[i].members[a]
SwapMembers(tm, i, a, j, b) ==
    [tm EXCEPT ![i][a] = tm[j][b], ![j][b] = tm[i][a]]

\* the candidates when the group of the member is not looked at
AnyGroupTargets(tm, ld, conflicted, avoid, group) ==
    UNION {{<<j, k>> : k \in 1 .. Len(tm[j])} :
              j \in {h \in Teams : h # conflicted /\ ~team_has_name(tm, ld, h, avoid)}}

\* the first (team, member) in team order, then member order, among the teams
\* other than `conflicted` that do not hold `avoid`, whose member is of `group`
SameGroupTargets(tm, ld, conflicted, avoid, group) ==
    UNION {{<<j, k>> : k \in {h \in 1 .. Len(tm[j]) : tm[j][h].group = group}} :
              j \in {h \in Teams : h # conflicted /\ ~team_has_name(tm, ld, h, avoid)}}

FirstOf(S) ==
    CHOOSE jk \in S : \A o \in S : jk[1] < o[1] \/ (jk[1] = o[1] /\ jk[2] <= o[2])

\* the first team other than `conflicted` that does not hold `avoid` and has a member
AnyTargets(tm, ld, conflicted, avoid) ==
    {j \in Teams : j # conflicted /\ ~team_has_name(tm, ld, j, avoid) /\ Len(tm[j]) > 0}

LeastOf(S) == CHOOSE j \in S : \A o \in S : j <= o

\* a resolution without the last resort of lines 597-614
ResolveSameGroupOnly(tm, ld, a, b) ==
    LET loc_a == Locate(tm, ld, a)
        loc_b == Locate(tm, ld, b)
        c == loc_a.team
        sameA == SameGroupTargets(tm, ld, c, b, tm[c][loc_a.idx].group)
        sameB == SameGroupTargets(tm, ld, c, a, tm[c][loc_b.idx].group)
    IN IF ~loc_a.found \/ ~loc_b.found THEN tm
       ELSE IF loc_a.team # loc_b.team THEN tm
       ELSE IF ~loc_a.is_leader /\ sameA # {}
            THEN SwapMembers(tm, c, loc_a.idx, FirstOf(sameA)[1], FirstOf(sameA)[2])
       ELSE IF ~loc_b.is_leader /\ sameB # {}
            THEN SwapMembers(tm, c, loc_b.idx, FirstOf(sameB)[1], FirstOf(sameB)[2])
       ELSE tm

try_resolve_pair(tm, ld, a, b) ==
    LET loc_a == Locate(tm, ld, a)
        loc_b == Locate(tm, ld, b)
        c == loc_a.team
        sameA == SameGroupTargets(tm, ld, c, b, tm[c][loc_a.idx].group)
        sameB == SameGroupTargets(tm, ld, c, a, tm[c][loc_b.idx].group)
        anyA == AnyTargets(tm, ld, c, b)
        anyB == AnyTargets(tm, ld, c, a)
    IN IF ~loc_a.found \/ ~loc_b.found THEN tm
       ELSE IF loc_a.team # loc_b.team THEN tm
       ELSE IF ~loc_a.is_leader /\ sameA # {}
            THEN SwapMembers(tm, c, loc_a.idx, FirstOf(sameA)[1], FirstOf(sameA)[2])
       ELSE IF ~loc_b.is_leader /\ sameB # {}
            THEN SwapMembers(tm, c, loc_b.idx, FirstOf(sameB)[1], FirstOf(sameB)[2])
       ELSE IF ~loc_a.is_leader /\ anyA # {}
            THEN SwapMembers(tm, c, loc_a.idx, LeastOf(anyA), 1)
       ELSE IF ~loc_b.is_leader /\ anyB # {}
            THEN SwapMembers(tm, c, loc_b.idx, LeastOf(anyB), 1)
       ELSE tm

\* enforce_exclusion_pairs(teams, pairs=[(a, b)])
enforce_exclusion_pairs(tm, ld, a, b) == try_resolve_pair(tm, ld, a, b)

\* swap_members(src_team, src_idx, dst_team) of enforce_inclusion_pair
swap_members(tm, src_team, src_idx, dst_team) ==
    LET group == tm[src_team][src_idx].group
        same == {k \in 1 .. Len(tm[dst_team]) : tm[dst_team][k].group = group}
    IN IF same # {}
       THEN [ok |-> TRUE, teams |-> SwapMembers(tm, src_team, src_idx, dst_team, LeastOf(same))]
       ELSE IF Len(tm[dst_team]) > 0
       THEN [ok |-> TRUE, teams |-> SwapMembers(tm, src_team, src_idx, dst_team, 1)]
       ELSE [ok |-> FALSE, teams |-> tm]

enforce_inclusion_pair(tm, ld, a, b) ==
    LET loc_a == Locate(tm, ld, a)
        loc_b == Locate(tm, ld, b)
    IN IF ~loc_a.found \/ ~loc_b.found THEN tm
       ELSE IF loc_a.team = loc_b.team THEN tm
       ELSE IF loc_a.is_leader /\ ~loc_b.is_leader
            THEN swap_members(tm, loc_b.team, loc_b.idx, loc_a.team).teams
       ELSE IF loc_b.is_leader /\ ~loc_a.is_leader
            THEN swap_members(tm, loc_a.team, loc_a.idx, loc_b.team).teams
       ELSE IF ~loc_a.is_leader /\ ~loc_b.is_leader
            THEN IF swap_members(tm, loc_a.team, loc_a.idx, loc_b.team).ok
                 THEN swap_members(tm, loc_a.team, loc_a.idx, loc_b.team).teams
                 ELSE swap_members(tm, loc_b.team, loc_b.idx, loc_a.team).teams
       ELSE tm

\* the gate left open for every seed
InclusionAlways(s) == s % 3 = 0 \/ s % 3 # 0

\* seed % 3 == 0, the gate of the inclusion rule
InclusionActive(s) == s % 3 = 0

\* lines 267-276 and 496-500: both exclusion rules, then the inclusion rule
\* when the seed is a multiple of 3
EnforceRules(tm, ld, s) ==
    LET t1 == enforce_exclusion_pairs(tm, ld, NoSihyeon, BaeYeongyeong)
        t2 == enforce_exclusion_pairs(t1, ld, NoSihyeon, LeeJinwon)
    IN IF InclusionActive(s) THEN enforce_inclusion_pair(t2, ld, LeeJinwon, BaeYeongyeong)
       ELSE t2

-----------------------------------------------------------------------------
(* The rebalancing of assign_members_to_teams, lines 278-438 *)

exclude_names == {LeeJinwon, BaeYeongyeong, NoSihyeon}

CountGroup(members, groups) ==
    Cardinality({k \in 1 .. Len(members) : members[k].group \in groups})

current_counts_for(tm, group) == [i \in Teams |-> CountGroup(tm[i], {group})]

locked_yb_by_team(tm) ==
    [i \in Teams |->
        Cardinality({k \in 1 .. Len(tm[i]) :
                        tm[i][k].group = "yb" /\ tm[i][k].name \in exclude_names})]

\* lines 294-299: a team's yb target is raised to its locked rookies and its ob
\* target lowered by as much, as far as it goes
RaiseToLocked(des, locked) ==
    [yb |-> [i \in Teams |-> Max(des.yb[i], locked[i])],
     ob |-> [i \in Teams |->
                IF locked[i] > des.yb[i]
                THEN des.ob[i] - Min(locked[i] - des.yb[i], des.ob[i])
                ELSE des.ob[i]]]

\* order.sort(key=lambda i: (locked[i] >= desired_yb[i], desired_yb[i])): the
\* stable sort of 0 .. 7 by that key (False before True)
KeyLess(yb, locked, i, j) ==
    LET bi == IF locked[i] >= yb[i] THEN 1 ELSE 0
        bj == IF locked[j] >= yb[j] THEN 1 ELSE 0
    IN bi < bj \/ (bi = bj /\ yb[i] < yb[j]) \/ (bi = bj /\ yb[i] = yb[j] /\ i < j)

RECURSIVE SortedBy(_, _, _)
SortedBy(S, yb, locked) ==
    IF S = {} THEN <<>>
    ELSE LET m == CHOOSE i \in S : \A j \in S \ {i} : KeyLess(yb, locked, i, j)
         IN <<m>> \o SortedBy(S \ {m}, yb, locked)

\* lines 307-314: the excess rookie places are taken back one by one
RECURSIVE TakeBackExcess(_, _, _, _, _)
TakeBackExcess(des, locked, order, yb_excess, ptr) ==
    IF yb_excess > 0 /\ ptr < 256
    THEN LET i == order[(ptr % Len(order)) + 1]
         IN IF des.yb[i] > locked[i]
            THEN TakeBackExcess([yb |-> [des.yb EXCEPT ![i] = @ - 1],
                                 ob |-> [des.ob EXCEPT ![i] = @ + 1]],
                                locked, order, yb_excess - 1, ptr + 1)
            ELSE TakeBackExcess(des, locked, order, yb_excess, ptr + 1)
    ELSE des

\* lines 316-330: a negative ob target is set to 0 and made up from other teams
RECURSIVE MakeUp(_, _, _, _)
MakeUp(des, i, need, j_ptr) ==
    IF need > 0 /\ j_ptr < 256
    THEN LET j == j_ptr % NumTeams
         IN IF j # i /\ des.ob[j] > 0
            THEN MakeUp([yb |-> [des.yb EXCEPT ![j] = @ + 1],
                         ob |-> [des.ob EXCEPT ![j] = @ - 1]], i, need - 1, j_ptr + 1)
            ELSE MakeUp(des, i, need, j_ptr + 1)
    ELSE des

RECURSIVE NoNegativeOb(_, _)
NoNegativeOb(des, i) ==
    IF i = NumTeams THEN des
    ELSE IF des.ob[i] < 0
         THEN NoNegativeOb(MakeUp([des EXCEPT !.ob[i] = 0], i, 0 - des.ob[i], 0), i + 1)
         ELSE NoNegativeOb(des, i + 1)

\* desired_yb_by_team and desired_ob_by_team after lines 285-332
AdjustForLocked(tm, tg) ==
    LET before == [yb |-> [i \in Teams |-> tg[i].yb], ob |-> [i \in Teams |-> tg[i].ob]]
        locked == locked_yb_by_team(tm)
        raised == RaiseToLocked(before, locked)
        yb_excess == SumOver(raised.yb, Teams) - SumOver(before.yb, Teams)
        taken == IF yb_excess > 0
                 THEN TakeBackExcess(raised, locked, SortedBy(Teams, raised.yb, locked),
                                     yb_excess, 0)
                 ELSE raised
    IN NoNegativeOb(taken, 0)

\* the first member of the groups, locked or not; 0 for None
FirstOfGroups(members, groups) ==
    LET hits == {k \in 1 .. Len(members) : members[k].group \in groups}
    IN IF hits = {} THEN 0 ELSE LeastOf(hits)

\* next((idx for idx, mem in enumerate(members)
\*       if mem.group in groups and mem.name not in exclude_names), None); 0 for None
FirstFree(members, groups) ==
    LET hits == {k \in 1 .. Len(members) :
                    members[k].group \in groups /\ members[k].name \notin exclude_names}
    IN IF hits = {} THEN 0 ELSE LeastOf(hits)

\* the donor/receiver pair the nested `for di in donors: for ri in receivers:`
\* reaches first: the first donor with a free member to give and, for it, the
\* first receiver with a free member to give back.  The outer loop breaks only
\* once a swap was made, so a donor none of whose receivers can swap is passed.
SwappablePairs(tm, donors, receivers, give, take) ==
    {dr \in donors \X receivers :
        FirstFree(tm[dr[1]], give) # 0 /\ FirstFree(tm[dr[2]], take) # 0}

\* one of the three `while True` loops: as long as a donor (over target) and a
\* receiver (under target) can swap, the first such pair does; at most 64 rounds
RECURSIVE SwapLoop(_, _, _, _, _, _)
SwapLoop(tm, cur, des, give, take, safety) ==
    LET donors == {i \in Teams : cur[i] > des[i]}
        receivers == {i \in Teams : cur[i] < des[i]}
        pairs == SwappablePairs(tm, donors, receivers, give, take)
        dr == FirstOf(pairs)
    IN IF safety + 1 > 64 \/ donors = {} \/ receivers = {} \/ pairs = {} THEN tm
       ELSE SwapLoop(SwapMembers(tm, dr[1], FirstFree(tm[dr[1]], give),
                                 dr[2], FirstFree(tm[dr[2]], take)),
                     [cur EXCEPT ![dr[1]] = @ - 1, ![dr[2]] = @ + 1],
                     des, give, take, safety + 1)

\* lines 337-438: the girls loop, the yb loop, the ob loop
SwapLoops(tm, des) ==
    LET t1 == SwapLoop(tm, current_counts_for(tm, "girls"), des.girls,
                       {"girls"}, {"ob", "yb"}, 0)
        t2 == SwapLoop(t1, current_counts_for(t1, "yb"), des.yb, {"yb"}, {"ob"}, 0)
    IN SwapLoop(t2, current_counts_for(t2, "ob"), des.ob, {"ob"}, {"yb"}, 0)

-----------------------------------------------------------------------------
(* rebuild_ob_yb_exact, lines 442-488, and the fine tuning of lines 504-523 *)

RECURSIVE Flatten(_, _)
Flatten(f, i) == IF i = NumTeams THEN <<>> ELSE f[i] \o Flatten(f, i + 1)

Pooled(m, locked_names) == m.group \in {"ob", "yb"} /\ m.name \notin locked_names

\* the members of `group` collected from all teams, in team and member order
CollectPool(tm, locked_names, group) ==
    LET Hit(m) == Pooled(m, locked_names) /\ m.group = group
    IN Flatten([i \in Teams |-> SelectSeq(tm[i], Hit)], 0)

\* the collection without `t.members = keep`: everybody stays listed
KeepEverybody(tm, locked_names) == tm

\* t.members = keep
KeepLocked(tm, locked_names) ==
    LET Kept(m) == ~Pooled(m, locked_names)
    IN [i \in Teams |-> SelectSeq(tm[i], Kept)]

\* a deal that does not look at what a team still needs: all go to team i
RedealToFirst(tm, yb_pool, ob_pool, des, i) ==
    [teams |-> [tm EXCEPT ![i] = @ \o yb_pool \o ob_pool], yb_pool |-> <<>>, ob_pool |-> <<>>]

\* lines 460-470: team by team, the rookies and then the veterans still needed
RECURSIVE Redeal(_, _, _, _, _)
Redeal(tm, yb_pool, ob_pool, des, i) ==
    IF i = NumTeams THEN [teams |-> tm, yb_pool |-> yb_pool, ob_pool |-> ob_pool]
    ELSE LET need_yb == Max(0, des.yb[i] - CountGroup(tm[i], {"yb"}))
             need_ob == Max(0, des.ob[i] - CountGroup(tm[i], {"ob"}))
             take_yb == Min(need_yb, Len(yb_pool))
             take_ob == Min(need_ob, Len(ob_pool))
         IN Redeal([tm EXCEPT ![i] = @ \o SubSeq(yb_pool, 1, take_yb)
                                       \o SubSeq(ob_pool, 1, take_ob)],
                   SubSeq(yb_pool, take_yb + 1, Len(yb_pool)),
                   SubSeq(ob_pool, take_ob + 1, Len(ob_pool)), des, i + 1)

\* current_total < target_total of fill_leftovers
HasRoom(tm, des, i) == CountGroup(tm[i], {"ob", "yb"}) < des.yb[i] + des.ob[i]

\* the loop of fill_leftovers.  Once no team has room the remaining rounds (up
\* to ptr = 1024) change nothing, and what is left in the pool is dropped.
RECURSIVE FillLoop(_, _, _, _, _)
FillLoop(tm, pool, des, order, ptr) ==
    IF Len(pool) > 0 /\ ptr < 1024 /\ \E i \in Teams : HasRoom(tm, des, i)
    THEN LET i == order[(ptr % Len(order)) + 1]
         IN IF HasRoom(tm, des, i)
            THEN FillLoop([tm EXCEPT ![i] = Append(@, pool[Len(pool)])],
                          SubSeq(pool, 1, Len(pool) - 1), des, order, ptr + 1)
            ELSE FillLoop(tm, pool, des, order, ptr + 1)
    ELSE tm

\* fill_leftovers(pool): nothing is drawn for an empty pool; otherwise
\* order = list(range(num_teams)) is shuffled and read round robin
fill_leftovers(tm, pool, des) ==
    IF Len(pool) = 0 THEN {tm}
    ELSE {FillLoop(tm, pool, des, order, 0) :
             order \in Shuffles(Teams, {i \in Teams : HasRoom(tm, des, i)})}

rebuild_ob_yb_exact(tm, des, locked_names) ==
    UNION {
      UNION { UNION {fill_leftovers(t, r.ob_pool, des) : t \in fill_leftovers(r.teams, r.yb_pool, des)} :
          r \in {Redeal(KeepLocked(tm, locked_names), yb_pool, ob_pool, des, 0) :
                   yb_pool \in Arrangements(CollectPool(tm, locked_names, "yb"))} } :
      ob_pool \in Arrangements(CollectPool(tm, locked_names, "ob")) }

\* lines 508-521: donors and receivers are fixed at the start; every donor in
\* turn swaps its first free girl with the first free male of the first
\* receiver that has one
RECURSIVE FineTuneFrom(_, _, _)
FineTuneFrom(tm, donors, receivers) ==
    IF donors = <<>> THEN tm
    ELSE LET di == Head(donors)
             able == {k \in 1 .. Len(receivers) : FirstFree(tm[receivers[k]], {"ob", "yb"}) # 0}
             ri == receivers[LeastOf(able)]
         IN IF FirstFree(tm[di], {"girls"}) = 0 \/ able = {}
            THEN FineTuneFrom(tm, Tail(donors), receivers)
            ELSE FineTuneFrom(SwapMembers(tm, di, FirstFree(tm[di], {"girls"}),
                                          ri, FirstFree(tm[ri], {"ob", "yb"})),
                              Tail(donors), receivers)

FineTune(tm, tg) ==
    LET cur == current_counts_for(tm, "girls")
    IN FineTuneFrom(tm, Ascending({i \in Teams : cur[i] > tg[i].girls}),
                        Ascending({i \in Teams : cur[i] < tg[i].girls}))

\* lines 526-531: the set locked_final; the final rebuild locks it and exclude_names
locked_final(s) ==
    (IF InclusionActive(s) THEN {LeeJinwon, BaeYeongyeong} ELSE {}) \cup {NoSihyeon}

-----------------------------------------------------------------------------
(* assign_members_to_teams from the distribution on *)

\* lines 242-265: the three pools are shuffled, every team pops its quota of
\* each, and every team's members are shuffled
DistributeOutcomes(ob, yb, girls, tg) ==
    UNION { UNION { {
        LET r1 == PopLoop(NoTeams, o, tg, "ob", 0)
            r2 == PopLoop(r1.teams, y, tg, "yb", 0)
            r3 == PopLoop(r2.teams, g, tg, "girls", 0)
        IN IF ~r1.ok THEN [ok |-> FALSE, teams |-> NoTeams, ob |-> r1.src, yb |-> y, girls |-> g]
           ELSE IF ~r2.ok
           THEN [ok |-> FALSE, teams |-> NoTeams, ob |-> r1.src, yb |-> r2.src, girls |-> g]
           ELSE [ok |-> r3.ok, teams |-> IF r3.ok THEN r3.teams ELSE NoTeams,
                 ob |-> r1.src, yb |-> r2.src, girls |-> r3.src] :
        g \in Arrangements(girls) } : y \in Arrangements(yb) } : o \in Arrangements(ob) }

Distribute ==
    /\ pc = "distribute"
    /\ \E d \in DistributeOutcomes(ob_list, yb_list, girls_list, targets) :
          /\ ob_list' = d.ob /\ yb_list' = d.yb /\ girls_list' = d.girls
          /\ IF d.ok
             THEN /\ teams' \in TeamShuffles(d.teams, 0)
                  /\ pc' = IF variant = "desktop" THEN "done" ELSE "enforce"
                  /\ outcome' = IF variant = "desktop" THEN "returned" ELSE outcome
             ELSE /\ teams' = teams
                  /\ pc' = "raised"
                  /\ outcome' = "PoolExhausted"
    /\ UNCHANGED <<room_vars, app>>
    /\ UNCHANGED <<variant, leaders, seed, input, remaining_capacity, targets,
                   desired, inclusion_calls>>

\* lines 267-276
Enforce ==
    /\ pc = "enforce"
    /\ teams' = EnforceRules(teams, leaders, seed)
    /\ inclusion_calls' = inclusion_calls + (IF InclusionActive(seed) THEN 1 ELSE 0)
    /\ pc' = "rebalance"
    /\ UNCHANGED <<room_vars, app>>
    /\ UNCHANGED <<variant, leaders, ob_list, yb_list, girls_list, seed, input,
                   remaining_capacity, targets, desired, outcome>>

\* lines 278-438
Rebalance ==
    /\ pc = "rebalance"
    /\ LET adj == AdjustForLocked(teams, targets)
           des == [girls |-> [i \in Teams |-> targets[i].girls], yb |-> adj.yb, ob |-> adj.ob]
       IN /\ desired' = des
          /\ teams' = SwapLoops(teams, des)
    /\ pc' = "rebuild"
    /\ UNCHANGED <<room_vars, app>>
    /\ UNCHANGED <<variant, leaders, ob_list, yb_list, girls_list, seed, input,
                   remaining_capacity, targets, outcome, inclusion_calls>>

\* lines 440-493: rebuild_ob_yb_exact(exclude_names)
Rebuild ==
    /\ pc = "rebuild"
    /\ teams' \in rebuild_ob_yb_exact(teams, desired, exclude_names)
    /\ pc' = "reenforce"
    /\ UNCHANGED <<room_vars, app>>
    /\ UNCHANGED <<variant, leaders, ob_list, yb_list, girls_list, seed, input,
                   remaining_capacity, targets, desired, outcome, inclusion_calls>>

\* lines 495-502
Reenforce ==
    /\ pc = "reenforce"
    /\ teams' = EnforceRules(teams, leaders, seed)
    /\ inclusion_calls' = inclusion_calls + (IF InclusionActive(seed) THEN 1 ELSE 0)
    /\ pc' = "finetune"
    /\ UNCHANGED <<room_vars, app>>
    /\ UNCHANGED <<variant, leaders, ob_list, yb_list, girls_list, seed, input,
                   remaining_capacity, targets, desired, outcome>>

\* lines 504-523
FineTuneGirls ==
    /\ pc = "finetune"
    /\ teams' = FineTune(teams, targets)
    /\ pc' = "final_rebuild"
    /\ UNCHANGED <<room_vars, app>>
    /\ UNCHANGED <<variant, leaders, ob_list, yb_list, girls_list, seed, input,
                   remaining_capacity, targets, desired, outcome, inclusion_calls>>

\* lines 525-539: the final rebuild, and `return teams`
FinalRebuild ==
    /\ pc = "final_rebuild"
    /\ teams' \in rebuild_ob_yb_exact(teams, desired, locked_final(seed) \cup exclude_names)
    /\ pc' = "done"
    /\ outcome' = "returned"
    /\ UNCHANGED <<room_vars, app>>
    /\ UNCHANGED <<variant, leaders, ob_list, yb_list, girls_list, seed, input,
                   remaining_capacity, targets, desired, inclusion_calls>>

-----------------------------------------------------------------------------
(* Whole runs of assign_members_to_teams *)

Named == <<NoSihyeon, BaeYeongyeong, LeeJinwon>>
Places == {"absent", "leader", "ob", "yb", "girls"}
Placements == [1 .. Len(Named) -> Places]

\* how many of the named individuals a placement puts into `group`
NamedIn(place, group) == Cardinality({h \in 1 .. Len(Named) : place[h] = group})

\* the captain list with genders gs in which the named individuals placed as
\* "leader" are the captains of teams 0, 1 and 2 respectively
LeadersOf(gs, place) ==
    [k \in 1 .. Len(gs) |->
        Leader(IF k <= Len(Named) /\ place[k] = "leader" THEN Named[k] ELSE Anon, gs[k])]

\* a pool: the named individuals placed in it, then `crowd` others
PoolOf(place, group, crowd) ==
    [k \in 1 .. NamedIn(place, group) |->
        Named[CHOOSE h \in 1 .. Len(Named) :
                 place[h] = group
                 /\ Cardinality({g \in 1 .. (h - 1) : place[g] = group}) = k - 1]]
    \o AnonPool(crowd)

InputOf(ld, ob, yb, girls) == [leaders |-> ld, ob |-> ob, yb |-> yb, girls |-> girls]

\* few people: every placement of the named individuals, and up to MaxCrowd
\* other veterans, MaxPeople people in the pools at most
SparseInputs ==
    {InputOf(LeadersOf(gs, pv[1]), PoolOf(pv[1], "ob", pv[2]),
             PoolOf(pv[1], "yb", 0), PoolOf(pv[1], "girls", 0)) :
        gs \in RunGenders,
        pv \in {x \in Placements \X (0 .. MaxCrowd) :
                  NamedIn(x[1], "ob") + NamedIn(x[1], "yb") + NamedIn(x[1], "girls") + x[2]
                      <= MaxPeople}}

\* a full house: one "other" per team, the named individuals among the
\* captains or among the others
FullHouseInputs ==
    {InputOf(LeadersOf(gs, place), <<>>, <<>>,
             PoolOf(place, "girls", NumTeams - NamedIn(place, "girls"))) :
        gs \in RunGenders,
        place \in [1 .. Len(Named) -> {"absent", "leader", "girls"}]}

\* captain lists the composition check rejects, with people in every pool
InvalidInputs ==
    {InputOf(AnonLeaders(gs), <<Anon, BaeYeongyeong>>, <<LeeJinwon>>, <<NoSihyeon, Anon>>) :
        gs \in InvalidGenders}

\* the seed is read only through seed % 3 = 0: one seed of each kind
Seeds == {0, 1}

Inputs == SparseInputs \cup FullHouseInputs \cup InvalidInputs

Init ==
    /\ pc = "start"
    /\ variant \in {"streamlit", "desktop"}
    /\ seed \in Seeds
    /\ \E in \in Inputs :
          /\ leaders = in.leaders
          /\ ob_list = in.ob
          /\ yb_list = in.yb
          /\ girls_list = in.girls
    /\ input = [ob |-> ob_list, yb |-> yb_list, girls |-> girls_list]
    /\ remaining_capacity = NoCounts
    /\ targets = ZeroTargets
    /\ teams = NoTeams
    /\ desired = NoDesired
    /\ outcome = "running"
    /\ inclusion_calls = 0 /\ app = NoApp
    /\ NoRoomsYet

Next ==
    \/ Validate \/ PlanCapacity \/ PlanGirls \/ PlanMale \/ DesktopPlan
    \/ Distribute \/ Enforce \/ Rebalance \/ Rebuild \/ Reenforce \/ FineTuneGirls
    \/ FinalRebuild

Spec == Init /\ [][Next]_vars

\* runs whose input names nobody: anonymous captains, and up to MaxPlain
\* anonymous people in each pool
PlainInputs ==
    {InputOf(AnonLeaders(gs), AnonPool(a), AnonPool(b), AnonPool(c)) :
        gs \in RunGenders, a \in 0 .. MaxPlain, b \in 0 .. MaxPlain, c \in 0 .. MaxPlain}

InitPlain ==
    /\ pc = "start"
    /\ variant \in {"streamlit", "desktop"}
    /\ seed \in Seeds
    /\ \E in \in PlainInputs :
          /\ leaders = in.leaders
          /\ ob_list = in.ob
          /\ yb_list = in.yb
          /\ girls_list = in.girls
    /\ input = [ob |-> ob_list, yb |-> yb_list, girls |-> girls_list]
    /\ remaining_capacity = NoCounts
    /\ targets = ZeroTargets
    /\ teams = NoTeams
    /\ desired = NoDesired
    /\ outcome = "running"
    /\ inclusion_calls = 0 /\ app = NoApp
    /\ NoRoomsYet

SpecPlain == InitPlain /\ [][Next]_vars

-----------------------------------------------------------------------------
(* The planner on its own, for all pool sizes within the bounds *)

InitPlanner ==
    /\ pc = "start"
    /\ variant \in {"streamlit", "desktop"}
    /\ leaders \in {AnonLeaders(gs) : gs \in ValidGenders}
    /\ ob_list \in {AnonPool(n) : n \in 0 .. MaxOb}
    /\ yb_list \in {AnonPool(n) : n \in 0 .. MaxYb}
    /\ girls_list \in {AnonPool(n) : n \in 0 .. MaxGirls}
    /\ seed = 0
    /\ input = [ob |-> ob_list, yb |-> yb_list, girls |-> girls_list]
    /\ remaining_capacity = NoCounts
    /\ targets = ZeroTargets
    /\ teams = NoTeams
    /\ desired = NoDesired
    /\ outcome = "running"
    /\ inclusion_calls = 0 /\ app = NoApp
    /\ NoRoomsYet

NextPlanner == Validate \/ PlanCapacity \/ PlanGirls \/ PlanMale \/ DesktopPlan

SpecPlanner == InitPlanner /\ [][NextPlanner]_vars

\* app.py: the composition check and compute_group_targets, for all pool sizes
\* up to MaxPool
InitDesktopPlanner ==
    /\ pc = "start"
    /\ variant = "desktop"
    /\ leaders \in {AnonLeaders(gs) : gs \in ValidGenders}
    /\ ob_list \in {AnonPool(n) : n \in 0 .. MaxPool}
    /\ yb_list \in {AnonPool(n) : n \in 0 .. MaxPool}
    /\ girls_list \in {AnonPool(n) : n \in 0 .. MaxPool}
    /\ seed = 0
    /\ input = [ob |-> ob_list, yb |-> yb_list, girls |-> girls_list]
    /\ remaining_capacity = NoCounts
    /\ targets = ZeroTargets
    /\ teams = NoTeams
    /\ desired = NoDesired
    /\ outcome = "running"
    /\ inclusion_calls = 0 /\ app = NoApp
    /\ NoRoomsYet

NextDesktopPlanner == Validate \/ DesktopPlan

SpecDesktopPlanner == InitDesktopPlanner /\ [][NextDesktopPlanner]_vars

\* compute_balanced_targets up to the girls quotas (line 182), with no veterans
\* or a team's worth of them and likewise for the rookies, so that the seats
\* of a team can outnumber its girls
InitGirlsPlan ==
    /\ pc = "start"
    /\ variant = "streamlit"
    /\ leaders \in {AnonLeaders(gs) : gs \in ValidGenders}
    /\ ob_list \in {AnonPool(0), AnonPool(NumTeams)}
    /\ yb_list \in {AnonPool(0), AnonPool(NumTeams)}
    /\ girls_list \in {AnonPool(n) : n \in 0 .. MaxGirls}
    /\ seed = 0
    /\ input = [ob |-> ob_list, yb |-> yb_list, girls |-> girls_list]
    /\ remaining_capacity = NoCounts
    /\ targets = ZeroTargets
    /\ teams = NoTeams
    /\ desired = NoDesired
    /\ outcome = "running"
    /\ inclusion_calls = 0 /\ app = NoApp
    /\ NoRoomsYet

NextGirlsPlan == Validate \/ PlanCapacity \/ PlanGirls

SpecGirlsPlan == InitGirlsPlan /\ [][NextGirlsPlan]_vars

-----------------------------------------------------------------------------
(* assign_rooms, streamlit_app.py lines 851-918 *)

RoomSizes == MinRoomSize .. MaxRoomSize

Person(n, grp, gen) == [name |-> n, group |-> grp, gender |-> gen]
Room(idx, members) == [index |-> idx, members |-> members]

\* the Member objects of the captain list and of a pool read with group and gender
LeadersAsPersons(ld) == [k \in 1 .. Len(ld) |-> Person(ld[k].name, "leader", ld[k].gender)]
PoolAsPersons(names, grp, gen) == [k \in 1 .. Len(names) |-> Person(names[k], grp, gen)]

\* not m.name.strip()
IsBlank(n) == n = "" \/ n = " "

\* name_to_member after the members were offered in turn: a member is kept
\* when its name is not blank and no kept member has it; list(dict.values())
\* is in insertion order
RECURSIVE FirstSeen(_, _)
FirstSeen(members, kept) ==
    IF members = <<>> THEN kept
    ELSE IF IsBlank(Head(members).name)
            \/ \E k \in 1 .. Len(kept) : kept[k].name = Head(members).name
         THEN FirstSeen(Tail(members), kept)
         ELSE FirstSeen(Tail(members), Append(kept, Head(members)))

dedup_by_name(preferred, others) == FirstSeen(others, FirstSeen(preferred, <<>>))

\* [v] * n
Repeat(v, n) == [k \in 1 .. n |-> v]

build_room_sizes(total, preferred_size) ==
    LET k == total \div preferred_size
        r == total % preferred_size
    IN IF total <= 0 THEN <<>>
       ELSE IF total < 3 THEN <<total>>
       ELSE IF r = 0 THEN Repeat(preferred_size, k)
       ELSE IF r = 3 THEN Repeat(preferred_size, k) \o <<3>>
       ELSE IF r = 2
            THEN IF k >= 1 THEN Repeat(preferred_size, k - 1) \o <<3, 3>> ELSE <<2>>
       ELSE IF r = 1
            THEN IF k >= 2 THEN Repeat(preferred_size, k - 2) \o <<3, 3, 3>>
                 ELSE IF k = 1 THEN <<3, 2>>
                 ELSE <<1>>
       ELSE <<>>

\* members[cursor : cursor + sz]
Slice(members, cursor, sz) == SubSeq(members, cursor + 1, Min(cursor + sz, Len(members)))

RECURSIVE ComposeFrom(_, _, _, _)
ComposeFrom(members, sizes, rooms, cursor) ==
    IF sizes = <<>> THEN rooms
    ELSE ComposeFrom(members, Tail(sizes),
                     Append(rooms, Room(Len(rooms), Slice(members, cursor, Head(sizes)))),
                     cursor + Head(sizes))

compose_rooms(members, preferred_size) ==
    ComposeFrom(members, build_room_sizes(Len(members), preferred_size), <<>>, 0)

IsMale(m) == m.gender = "M"
IsFemale(m) == m.gender = "F"

\* male_pool and female_pool before the shuffles, lines 863-878
MalePoolOf(ld, ob, yb) ==
    dedup_by_name(SelectSeq(LeadersAsPersons(ld), IsMale),
                  PoolAsPersons(ob, "ob", "M") \o PoolAsPersons(yb, "yb", "M"))

FemalePoolOf(ld, girls) ==
    dedup_by_name(SelectSeq(LeadersAsPersons(ld), IsFemale), PoolAsPersons(girls, "girls", "F"))

\* nothing of the team draw is touched by assign_rooms or build_room_sizes
team_vars == <<variant, leaders, ob_list, yb_list, girls_list, seed, input,
               remaining_capacity, targets, teams, desired, outcome, inclusion_calls>>

\* assign_rooms as a whole: both pools deduplicated, shuffled and cut into rooms
AssignRooms ==
    /\ pc = "rooms"
    /\ \E mp \in Arrangements(MalePoolOf(leaders, ob_list, yb_list)),
          fp \in Arrangements(FemalePoolOf(leaders, girls_list)) :
          /\ male_pool' = mp
          /\ female_pool' = fp
          /\ male_rooms' = compose_rooms(mp, room_size)
          /\ female_rooms' = compose_rooms(fp, room_size)
    /\ pc' = "rooms_done"
    /\ UNCHANGED <<room_size, room_total, room_sizes>>
    /\ UNCHANGED <<team_vars, app>>

\* the sequences made of some of the entries of s, in their order
RECURSIVE SubSequences(_)
SubSequences(s) ==
    IF s = <<>> THEN {<<>>}
    ELSE LET rest == SubSequences(Tail(s))
         IN rest \cup {<<Head(s)>> \o t : t \in rest}

\* captains and pools that share names: "a" is a male captain and a veteran,
\* "b" a female captain and an other, "c" a veteran, a rookie and an other
RoomLeaders == SubSequences(<<Leader("a", "M"), Leader("b", "F"), Leader("m", "M")>>)
RoomOb == SubSequences(<<"a", "c">>)
RoomYb == SubSequences(<<"c", "d">>)
RoomGirls == SubSequences(<<"b", "c", "e">>)

InitRooms ==
    /\ pc = "rooms"
    /\ variant = "streamlit"
    /\ seed = 0
    /\ leaders \in RoomLeaders
    /\ ob_list \in RoomOb
    /\ yb_list \in RoomYb
    /\ girls_list \in RoomGirls
    /\ input = [ob |-> ob_list, yb |-> yb_list, girls |-> girls_list]
    /\ remaining_capacity = NoCounts
    /\ targets = ZeroTargets
    /\ teams = NoTeams
    /\ desired = NoDesired
    /\ outcome = "running"
    /\ inclusion_calls = 0 /\ app = NoApp
    /\ room_size \in RoomSizes
    /\ male_pool = <<>> /\ female_pool = <<>>
    /\ male_rooms = <<>> /\ female_rooms = <<>>
    /\ room_total = 0 /\ room_sizes = <<>>

NextRooms == AssignRooms

SpecRooms == InitRooms /\ [][NextRooms]_vars

\* build_room_sizes on its own
BuildRoomSizes ==
    /\ pc = "sizes"
    /\ room_sizes' = build_room_sizes(room_total, room_size)
    /\ pc' = "sizes_done"
    /\ UNCHANGED <<room_size, room_total, male_pool, female_pool, male_rooms, female_rooms>>
    /\ UNCHANGED <<team_vars, app>>

InitSizes ==
    /\ pc = "sizes"
    /\ variant = "streamlit"
    /\ seed = 0
    /\ leaders = <<>>
    /\ ob_list = <<>> /\ yb_list = <<>> /\ girls_list = <<>>
    /\ input = [ob |-> ob_list, yb |-> yb_list, girls |-> girls_list]
    /\ remaining_capacity = NoCounts
    /\ targets = ZeroTargets
    /\ teams = NoTeams
    /\ desired = NoDesired
    /\ outcome = "running"
    /\ inclusion_calls = 0 /\ app = NoApp
    /\ room_size \in RoomSizes
    /\ room_total \in 0 .. MaxTotal
    /\ male_pool = <<>> /\ female_pool = <<>>
    /\ male_rooms = <<>> /\ female_rooms = <<>>
    /\ room_sizes = <<>>

NextSizes == BuildRoomSizes

SpecSizes == InitSizes /\ [][NextSizes]_vars

-----------------------------------------------------------------------------
(* The repair functions on their own, on rosters of any shape *)

\* the teams that have members in these rosters; the others have a captain only
RosterTeams == {0, 1, 2}

FillerLists == UNION {[1 .. n -> {Member(Anon, g) : g \in {"ob", "girls"}}] : n \in 0 .. MaxFill}

\* at most MaxFill anonymous members, on the teams of RosterTeams
FillerRosters ==
    {[i \in Teams |-> IF i \in RosterTeams THEN f[i] ELSE <<>>] :
        f \in {g \in [RosterTeams -> FillerLists] :
                  SumOver([i \in RosterTeams |-> Len(g[i])], RosterTeams) <= MaxFill}}

AnonCaptains == AnonLeaders(<<"F", "M", "F", "F", "M", "M", "F", "M">>)

\* where a named person can be: nowhere, captain of a team, or a member of a
\* group at some index of a team
Spots(tm) ==
    {[kind |-> "absent", team |-> 0, pos |-> 0, group |-> ""]}
    \cup {[kind |-> "captain", team |-> t, pos |-> 0, group |-> ""] : t \in RosterTeams}
    \cup UNION {{[kind |-> "member", team |-> t, pos |-> p, group |-> g] :
                    p \in 1 .. (Len(tm[t]) + 1), g \in {"ob", "girls"}} : t \in RosterTeams}

InsertAt(members, p, m) == SubSeq(members, 1, p - 1) \o <<m>> \o SubSeq(members, p, Len(members))

\* the roster with `name` at the spot
PutAt(r, name, spot) ==
    IF spot.kind = "absent" THEN r
    ELSE IF spot.kind = "captain"
         THEN [r EXCEPT !.leaders[spot.team + 1].name = name]
         ELSE [r EXCEPT !.teams[spot.team] = InsertAt(@, spot.pos, Member(name, spot.group))]

\* a captain's place is free for `name`
Free(r, spot) == spot.kind = "captain" => r.leaders[spot.team + 1].name = Anon

\* a roster of anonymous captains and members
Anonymous(f) == [teams |-> f, leaders |-> AnonCaptains]

\* enforce_exclusion_pairs(teams, [("노시현", "배연경")]), called once
ResolveExclusion ==
    /\ pc = "exclude"
    /\ teams' = enforce_exclusion_pairs(teams, leaders, NoSihyeon, BaeYeongyeong)
    /\ pc' = "excluded"
    /\ UNCHANGED <<room_vars, app>>
    /\ UNCHANGED <<variant, leaders, ob_list, yb_list, girls_list, seed, input,
                   remaining_capacity, targets, desired, outcome, inclusion_calls>>

\* every roster with each of the two at most once; input.teams keeps the
\* roster as it was passed
InitExclusion ==
    /\ pc = "exclude"
    /\ variant = "streamlit"
    /\ \E f \in FillerRosters :
          \E sa \in Spots(f) :
             \E sb \in Spots(PutAt(Anonymous(f), NoSihyeon, sa).teams) :
                LET r == PutAt(Anonymous(f), NoSihyeon, sa)
                IN /\ Free(r, sb)
                   /\ teams = PutAt(r, BaeYeongyeong, sb).teams
                   /\ leaders = PutAt(r, BaeYeongyeong, sb).leaders
                   /\ input = [ob |-> <<>>, yb |-> <<>>, girls |-> <<>>,
                               teams |-> PutAt(r, BaeYeongyeong, sb).teams]
    /\ ob_list = <<>> /\ yb_list = <<>> /\ girls_list = <<>>
    /\ seed = 0
    /\ remaining_capacity = NoCounts
    /\ targets = ZeroTargets
    /\ desired = NoDesired
    /\ outcome = "running"
    /\ inclusion_calls = 0 /\ app = NoApp
    /\ NoRoomsYet

NextExclusion == ResolveExclusion

SpecExclusion == InitExclusion /\ [][NextExclusion]_vars

\* enforce_inclusion_pair(teams, (a, b)), called once on the same rosters, the
\* two placed names being a and b
ResolveInclusion ==
    /\ pc = "exclude"
    /\ teams' = enforce_inclusion_pair(teams, leaders, NoSihyeon, BaeYeongyeong)
    /\ pc' = "included"
    /\ UNCHANGED <<room_vars, app>>
    /\ UNCHANGED <<variant, leaders, ob_list, yb_list, girls_list, seed, input,
                   remaining_capacity, targets, desired, outcome, inclusion_calls>>

\* one call of either repair function on a roster
NextRepair == ResolveExclusion \/ ResolveInclusion

SpecRepair == InitExclusion /\ [][NextRepair]_vars

-----------------------------------------------------------------------------
(* TeamDrawerApp, app.py: the buttons and the timer callbacks of the reveal.
   Tk runs one callback at a time, so every button handler and every timer
   callback is one step; app.chains[k] is the closure of the k-th start_draw:
   its assignment_queue and the (team_idx, member, i) of the pending spin. *)

\* planned_teams = assign_members_to_teams(...) of app.py, every outcome
PlannedTeams ==
    LET tg == compute_group_targets(leaders, Len(ob_list), Len(yb_list), Len(girls_list))
    IN UNION {TeamShuffles(d.teams, 0) :
                 d \in {o \in DistributeOutcomes(ob_list, yb_list, girls_list, tg) : o.ok}}

\* [(team.index, m) for team in planned_teams for m in team.members]
RECURSIVE QueueFrom(_, _)
QueueFrom(planned, i) ==
    IF i = NumTeams THEN <<>>
    ELSE [k \in 1 .. Len(planned[i]) |-> <<i, planned[i][k]>>] \o QueueFrom(planned, i + 1)

\* the closure of a start_draw before its first animate_next
NewChain(queue) ==
    [queue |-> queue, at |-> "animate_next", i |-> 0, team_idx |-> 0,
     member |-> Member(Anon, "ob")]

\* animate_next(): an empty queue ends the reveal; otherwise the last entry is
\* popped and spin(0) runs at once, which shows a name and schedules spin(1)
animate_next(a, k) ==
    LET q == a.chains[k].queue
    IN IF q = <<>>
       THEN [a EXCEPT !.status = "complete", !.chains[k].at = "ended"]
       ELSE [a EXCEPT !.chains[k] =
                 [queue |-> SubSeq(q, 1, Len(q) - 1), at |-> "spin", i |-> 1,
                  team_idx |-> q[Len(q)][1], member |-> q[Len(q)][2]]]

\* spin(i): past the last frame the member is added to self.teams[team_idx]
\* and animate_next is scheduled; self.teams[team_idx] raises IndexError when
\* self.teams has no such entry, and the callback chain ends there
spin(a, k) ==
    LET c == a.chains[k]
    IN IF c.i >= SpinFrames
       THEN IF c.team_idx \in DOMAIN a.teams
            THEN [a EXCEPT !.teams[c.team_idx] = Append(@, c.member),
                           !.chains[k].at = "animate_next"]
            ELSE [a EXCEPT !.broken = TRUE, !.chains[k].at = "ended"]
       ELSE [a EXCEPT !.chains[k].i = c.i + 1]

\* the button "start draw": the plan is computed, the queue shuffled,
\* self.teams replaced by 8 teams without members, and animate_next() called
start_draw ==
    /\ pc = "window"
    /\ Len(app.chains) < MaxDraws
    /\ \E planned \in PlannedTeams : \E queue \in Arrangements(QueueFrom(planned, 0)) :
          app' = animate_next([app EXCEPT !.teams = NoTeams, !.status = "drawing",
                                          !.plan = planned,
                                          !.chains = Append(@, NewChain(queue))],
                              Len(app.chains) + 1)
    /\ UNCHANGED <<pc, team_vars, room_vars>>

\* root.after(150, animate_next) fires
AnimateNextTimer ==
    /\ pc = "window"
    /\ \E k \in 1 .. Len(app.chains) :
          /\ app.chains[k].at = "animate_next"
          /\ app' = animate_next(app, k)
    /\ UNCHANGED <<pc, team_vars, room_vars>>

\* root.after(70, lambda: spin(i + 1)) fires
SpinTimer ==
    /\ pc = "window"
    /\ \E k \in 1 .. Len(app.chains) :
          /\ app.chains[k].at = "spin"
          /\ app' = spin(app, k)
    /\ UNCHANGED <<pc, team_vars, room_vars>>

\* the button "reset": self.teams = [] and the status line says so
reset ==
    /\ pc = "window"
    /\ app' = [app EXCEPT !.teams = <<>>, !.status = "reset"]
    /\ UNCHANGED <<pc, team_vars, room_vars>>

\* the button "save": export_to_excel(self.teams) unless self.teams is empty
save_excel ==
    /\ pc = "window"
    /\ app' = [app EXCEPT !.exported = IF app.teams = <<>> THEN @ ELSE app.teams]
    /\ UNCHANGED <<pc, team_vars, room_vars>>

\* the window with the data loaded: 8 captains and up to MaxLoaded others
InitApp ==
    /\ pc = "window"
    /\ variant = "desktop"
    /\ leaders = AnonCaptains
    /\ ob_list = <<>> /\ yb_list = <<>>
    /\ girls_list \in {SubSeq(Named, 1, n) : n \in 0 .. MaxLoaded}
    /\ seed = 0
    /\ input = [ob |-> ob_list, yb |-> yb_list, girls |-> girls_list]
    /\ remaining_capacity = NoCounts
    /\ targets = ZeroTargets
    /\ teams = NoTeams
    /\ desired = NoDesired
    /\ outcome = "running"
    /\ inclusion_calls = 0 /\ app = NoApp
    /\ NoRoomsYet

NextApp == start_draw \/ AnimateNextTimer \/ SpinTimer \/ reset \/ save_excel

SpecApp == InitApp /\ [][NextApp]_vars

-----------------------------------------------------------------------------
(* Vocabulary of the properties *)

\* the run of streamlit_app.assign_members_to_teams has returned its roster
Returned == pc = "done" /\ variant = "streamlit" /\ outcome = "returned"

\* the distribution loops and the team shuffle are over, nothing was repaired yet
AfterDistribution == pc = "enforce" \/ (pc = "done" /\ variant = "desktop")

IsCaptain(name) == \E k \in 1 .. Len(leaders) : leaders[k].name = name

\* the person is in the input, as a captain or in one of the pools
Present(name) ==
    IsCaptain(name) \/ name \in (Range(input.ob) \cup Range(input.yb) \cup Range(input.girls))

\* both are on one team of the roster
Together(a, b) ==
    \E i \in Teams : team_has_name(teams, leaders, i, a) /\ team_has_name(teams, leaders, i, b)

\* 8 captains, 4 of gender "M" and 4 of gender "F"
EightFourFour ==
    /\ Len(leaders) = 8
    /\ Cardinality({k \in 1 .. Len(leaders) : leaders[k].gender = "M"}) = 4
    /\ Cardinality({k \in 1 .. Len(leaders) : leaders[k].gender = "F"}) = 4

QuotaOf(i) == targets[i].ob + targets[i].yb + targets[i].girls

QuotaSum(key) == SumOver([i \in Teams |-> targets[i][key]], Teams)

QuotaSpread(key) ==
    LET vals == {targets[i][key] : i \in Teams}
    IN (CHOOSE v \in vals : \A w \in vals : v >= w) - (CHOOSE v \in vals : \A w \in vals : v <= w)

\* how often the roster lists `name` as a member of `group`
Occurrences(name, group) ==
    SumOver([i \in Teams |->
                Cardinality({k \in 1 .. Len(teams[i]) : teams[i][k] = Member(name, group)})],
            Teams)

People == {NoSihyeon, BaeYeongyeong, LeeJinwon, Anon}
Groups == {"ob", "yb", "girls"}

-----------------------------------------------------------------------------
(* C1 .. C10 *)

\* C1: in a returned roster in which every team has at least one non-captain
\* member, NoSihyeon is on a team with neither BaeYeongyeong nor LeeJinwon,
\* whenever both of the pair are in the input.
C1_ExclusionEndToEnd ==
    (Returned /\ \A i \in Teams : Len(teams[i]) >= 1)
    => /\ (Present(NoSihyeon) /\ Present(BaeYeongyeong)) => ~Together(NoSihyeon, BaeYeongyeong)
       /\ (Present(NoSihyeon) /\ Present(LeeJinwon)) => ~Together(NoSihyeon, LeeJinwon)

\* C2: with seed % 3 = 0, LeeJinwon and BaeYeongyeong both in the input and not
\* both captains, the returned roster has them on one team.
C2_ConditionalInclusion ==
    (Returned /\ seed % 3 = 0 /\ Present(LeeJinwon) /\ Present(BaeYeongyeong)
       /\ ~(IsCaptain(LeeJinwon) /\ IsCaptain(BaeYeongyeong)))
    => Together(LeeJinwon, BaeYeongyeong)

\* C3: with seed % 3 # 0, enforce_inclusion_pair is never called, neither
\* after the distribution nor after the rebuild, and locked_final does not get
\* LeeJinwon and BaeYeongyeong.
C3_InclusionGating ==
    seed % 3 # 0 => (inclusion_calls = 0 /\ locked_final(seed) = {NoSihyeon})

\* a run with seed % 3 # 0 that went through both enforcement points and
\* returned the pair on different teams
C3_Witness ==
    /\ Returned /\ seed % 3 # 0
    /\ Present(LeeJinwon) /\ Present(BaeYeongyeong)
    /\ ~Together(LeeJinwon, BaeYeongyeong)
    /\ inclusion_calls = 0

\* C4: the quota map of either planner has no negative entry, and its ob, yb
\* and girls quotas add up to the sizes of the three pools.
C4_QuotaConservation ==
    pc = "distribute"
    => /\ \A i \in Teams : targets[i].ob >= 0 /\ targets[i].yb >= 0 /\ targets[i].girls >= 0
       /\ QuotaSum("ob") = Len(input.ob)
       /\ QuotaSum("yb") = Len(input.yb)
       /\ QuotaSum("girls") = Len(input.girls)

\* a quota map for more people than teams, with a remainder to place
C4_Witness ==
    /\ pc = "distribute" /\ variant = "streamlit"
    /\ Len(input.girls) >= NumTeams /\ Len(input.yb) > 0
    /\ QuotaSum("yb") = Len(input.yb)

\* C5: in the quota map of compute_balanced_targets the largest and the
\* smallest quota of a group differ by at most 1, for ob, for yb and for girls.
C5_BalanceBound ==
    (pc = "distribute" /\ variant = "streamlit")
    => \A key \in Groups : QuotaSpread(key) <= 1

\* C6: right after the distribution every team holds exactly its quota of
\* each group, and every person of the input pools is on the roster exactly as
\* often as in the pools.
C6_RosterCompleteness ==
    AfterDistribution
    => /\ \A i \in Teams :
             /\ \A key \in Groups : CountGroup(teams[i], {key}) = targets[i][key]
             /\ Len(teams[i]) = QuotaOf(i)
       /\ \A name \in People, key \in Groups :
             Occurrences(name, key) = Count(input[key], name)

\* a distribution of a full house with all three named individuals among the others
C6_Witness ==
    /\ AfterDistribution
    /\ Len(input.girls) = NumTeams
    /\ \A k \in 1 .. Len(Named) : Occurrences(Named[k], "girls") = 1

\* C7: in the returned roster every team has as many members as the planner
\* gave it places.
C7_TeamSizePreserved ==
    Returned => \A i \in Teams : Len(teams[i]) = QuotaOf(i)

\* C8: a captain list that is not 8 captains, 4 "M" and 4 "F", makes the run
\* raise at once: no quota, no team, and the three pools as they were passed.
C8_InvalidCompositionIsFatal ==
    (pc # "start" /\ ~EightFourFour)
    => /\ pc = "raised" /\ outcome = "InvalidCaptainComposition"
       /\ teams = NoTeams /\ targets = ZeroTargets
       /\ ob_list = input.ob /\ yb_list = input.yb /\ girls_list = input.girls

\* a run that raised for 8 captains split 5 / 3, with people in the pools
C8_Witness ==
    /\ outcome = "InvalidCaptainComposition"
    /\ Len(leaders) = 8 /\ ~EightFourFour
    /\ Len(ob_list) > 0 /\ Len(yb_list) > 0 /\ Len(girls_list) > 0

\* C9: the distribution loops, driven by the planner's quotas, never make
\* pop_many raise.
C9_PoolExhaustedUnreachable == outcome # "PoolExhausted"

\* a distribution that used up a pool of veterans and a pool of others
C9_Witness ==
    /\ pc = "enforce"
    /\ Len(input.ob) > 0 /\ Len(input.girls) > 0
    /\ ob_list = <<>> /\ yb_list = <<>> /\ girls_list = <<>>

\* C10: a returned roster that has an exclusion pair on one team, or with
\* seed % 3 = 0 the inclusion pair on different teams, comes with the
\* ConstraintUnsatisfiable signal.
C10_UnsatisfiedIsReported ==
    (pc = "done" /\ variant = "streamlit"
       /\ \/ (Present(NoSihyeon) /\ Present(BaeYeongyeong) /\ Together(NoSihyeon, BaeYeongyeong))
          \/ (Present(NoSihyeon) /\ Present(LeeJinwon) /\ Together(NoSihyeon, LeeJinwon))
          \/ (seed % 3 = 0 /\ Present(LeeJinwon) /\ Present(BaeYeongyeong)
                /\ ~Together(LeeJinwon, BaeYeongyeong)))
    => outcome = "ConstraintUnsatisfiable"

-----------------------------------------------------------------------------
(* C12 .. C15: the rooms *)

RoomsDone == pc = "rooms_done"

\* the members of all rooms of a list, room after room
RECURSIVE Occupants(_)
Occupants(rooms) ==
    IF rooms = <<>> THEN <<>> ELSE Head(rooms).members \o Occupants(Tail(rooms))

\* the rooms hold every member of the pool once and nobody else, none is empty
PacksExactly(rooms, pool) ==
    /\ Len(Occupants(rooms)) = Len(pool)
    /\ \A m \in Range(pool) : Count(Occupants(rooms), m) = 1
    /\ \A k \in 1 .. Len(rooms) : Len(rooms[k].members) > 0

\* C12: for every preferred size 2 .. 6 the rooms of each gender hold exactly
\* the deduplicated pool of that gender, every member in one room, and no room
\* is empty.
C12_RoomPackingTotal ==
    RoomsDone => PacksExactly(male_rooms, male_pool) /\ PacksExactly(female_rooms, female_pool)

\* the list the stated rule gives for total n and preferred size s, where it
\* gives one
StatedRuleApplies(n, s) ==
    LET r == n % s IN r = 0 \/ r = s - 1 \/ (r = s - 2 /\ s >= 4) \/ r = 1

StatedRule(n, s) ==
    LET k == n \div s
        r == n % s
    IN IF r = 0 THEN Repeat(s, k)
       ELSE IF r = s - 1 THEN Repeat(s, k) \o <<s - 1>>
       ELSE IF r = s - 2 /\ s >= 4
            THEN IF k = 0 THEN <<s - 2>> ELSE Repeat(s, k - 1) \o <<s - 1, s - 1>>
       ELSE IF k >= 2 THEN Repeat(s, k - 2) \o <<s - 1, s - 1, s - 1>>
       ELSE IF k = 1 THEN <<s - 1, 1>>
       ELSE <<1>>

\* the same rooms, in whatever order
SameSizes(a, b) == \A v \in 0 .. MaxRoomSize : Count(a, v) = Count(b, v)

\* C13: for every preferred size s in 2 .. 6 and every total n, the list
\* build_room_sizes returns is the one the stated rule prescribes for
\* k = n // s and r = n % s (r = 0, r = s-1, r = s-2 with s >= 4, r = 1).
C13_RoomSizingRule ==
    (pc = "sizes_done" /\ StatedRuleApplies(room_total, room_size))
    => SameSizes(room_sizes, StatedRule(room_total, room_size))

\* every room has 2 .. 6 occupants, unless the pool has fewer than 2 people
OccupancyBound(rooms, pool) ==
    \A k \in 1 .. Len(rooms) :
        \/ Len(rooms[k].members) \in MinRoomSize .. MaxRoomSize
        \/ Len(pool) < 2

\* C14: for every preferred size 2 .. 6 every room returned has between 2 and
\* 6 occupants; a room with fewer than 2 exists only when the deduplicated
\* pool of that gender has fewer than 2 people.
C14_RoomOccupancyBound ==
    RoomsDone => OccupancyBound(male_rooms, male_pool) /\ OccupancyBound(female_rooms, female_pool)

AllOccupants == Occupants(male_rooms) \o Occupants(female_rooms)

\* C15: no name occurs twice across the male and the female rooms together;
\* a name that is a captain's and also in a pool is housed with the captain's
\* record; male rooms hold males only and female rooms females only.
C15_RoomDedupAndGender ==
    RoomsDone
    => /\ \A a, b \in 1 .. Len(AllOccupants) :
             AllOccupants[a].name = AllOccupants[b].name => a = b
       /\ \A k \in 1 .. Len(AllOccupants) :
             IsCaptain(AllOccupants[k].name) => AllOccupants[k].group = "leader"
       /\ \A k \in 1 .. Len(Occupants(male_rooms)) : Occupants(male_rooms)[k].gender = "M"
       /\ \A k \in 1 .. Len(Occupants(female_rooms)) : Occupants(female_rooms)[k].gender = "F"

-----------------------------------------------------------------------------
(* C16 .. C19: the planners *)

PoolTotal == Len(input.ob) + Len(input.yb) + Len(input.girls)

\* the seats of a team: those its quotas have taken and those still free
Capacity(i) == QuotaOf(i) + remaining_capacity[i]

\* compute_balanced_targets has fixed the girls quotas / has returned
GirlsPlanned == variant = "streamlit" /\ pc \in {"plan_male", "distribute"}
BalancedPlanned == variant = "streamlit" /\ pc = "distribute"

\* C16: in compute_balanced_targets every team has (V+R+G) // 8 seats, except
\* exactly (V+R+G) % 8 teams that have one more; the girls quota of a team
\* never exceeds its seats, and the returned ob + yb + girls quota of a team
\* equals its seats.
C16_PerTeamCapacity ==
    GirlsPlanned
    => /\ \A i \in Teams :
             Capacity(i) \in {PoolTotal \div NumTeams, (PoolTotal \div NumTeams) + 1}
       /\ Cardinality({i \in Teams : Capacity(i) = (PoolTotal \div NumTeams) + 1})
             = PoolTotal % NumTeams
       /\ \A i \in Teams : targets[i].girls <= Capacity(i)
       /\ BalancedPlanned => \A i \in Teams : QuotaOf(i) = Capacity(i)

\* a returned quota map for 10 people: two teams of 2 seats, and a team whose
\* seats all went to girls
C16_Witness ==
    /\ BalancedPlanned
    /\ PoolTotal = NumTeams + 2
    /\ \E i, j \in Teams : QuotaOf(i) = 2 /\ QuotaOf(j) = 1
    /\ \E i \in Teams : targets[i].girls = 2

MaleCaptainTeams == {i \in Teams : leaders[i + 1].gender = "M"}
FemaleCaptainTeams == {i \in Teams : leaders[i + 1].gender = "F"}

\* no girls quota has reached the seats of its team
CapacityNotBinding == \A i \in Teams : targets[i].girls < Capacity(i)

\* C17: when capacity is not binding, a female-captain team has a girls quota
\* above G // 8 only if all four male-captain teams have G // 8 + 1, and no
\* team has a girls quota below G // 8.
C17_MaleCaptainPriority ==
    (GirlsPlanned /\ CapacityNotBinding)
    => LET base_g == Len(input.girls) \div NumTeams
       IN /\ (\E f \in FemaleCaptainTeams : targets[f].girls > base_g)
                => \A m \in MaleCaptainTeams : targets[m].girls >= base_g + 1
          /\ \A i \in Teams : targets[i].girls >= base_g

\* app.compute_group_targets has returned
DesktopPlanned == variant = "desktop" /\ pc = "distribute"

BaseOf(key) == Len(input[key]) \div NumTeams

\* C18: for 8 captains, 4 M and 4 F, and all pool sizes, the quotas of
\* app.compute_group_targets are floor(pool / 8) or floor(pool / 8) + 1 on
\* every team, for ob, for yb and for girls.
C18_DesktopBalanceBound ==
    DesktopPlanned
    => \A key \in Groups, i \in Teams : targets[i][key] \in {BaseOf(key), BaseOf(key) + 1}

\* 5 veterans, 9 rookies, 7 others: the remainder of the veterans and of the
\* others outnumbers the four preferred teams
C18_Witness ==
    /\ DesktopPlanned
    /\ Len(input.ob) = 5 /\ Len(input.yb) = 9 /\ Len(input.girls) = 7
    /\ \E i \in MaleCaptainTeams : targets[i].ob = 1
    /\ \E i \in FemaleCaptainTeams : targets[i].yb = 2
    /\ \E i \in FemaleCaptainTeams : targets[i].girls = 0

\* only with all of `first` above the base is one of `later` above it
Before(key, first, later) ==
    (\E i \in later : targets[i][key] > BaseOf(key))
    => \A j \in first : targets[j][key] > BaseOf(key)

\* C19: in app.compute_group_targets a male-captain team has an extra veteran
\* (rookie) only when all female-captain teams have one, and a female-captain
\* team has an extra girl only when all male-captain teams have one.
C19_DesktopRemainderPriority ==
    DesktopPlanned
    => /\ Before("ob", FemaleCaptainTeams, MaleCaptainTeams)
       /\ Before("yb", FemaleCaptainTeams, MaleCaptainTeams)
       /\ Before("girls", MaleCaptainTeams, FemaleCaptainTeams)

\* 6 veterans: two male-captain teams have an extra one; 3 rookies: one
\* female-captain team has none; 6 others: two female-captain teams have one
C19_Witness ==
    /\ DesktopPlanned
    /\ Len(input.ob) = 6 /\ Len(input.yb) = 3 /\ Len(input.girls) = 6
    /\ Cardinality({i \in MaleCaptainTeams : targets[i].ob = 1}) = 2
    /\ Cardinality({i \in FemaleCaptainTeams : targets[i].yb = 0}) = 1
    /\ Cardinality({i \in FemaleCaptainTeams : targets[i].girls = 1}) = 2

-----------------------------------------------------------------------------
(* C20: one exclusion resolution *)

\* the team of the roster passed in that held both, if there was one
ConflictedTeams(a, b) ==
    {i \in Teams : IsIn(input.teams, leaders, i, a) /\ IsIn(input.teams, leaders, i, b)}

\* C20: after one enforce_exclusion_pairs(teams, [(a, b)]) on a roster that has
\* a and b on one team, not both of them captains, and a member on some other
\* team, a and b are on different teams; a roster that has them on different
\* teams, or lacks one of them, is left as it was.
C20_SingleExclusionSeparates ==
    pc = "excluded"
    => /\ (\E c \in ConflictedTeams(NoSihyeon, BaeYeongyeong) :
              /\ ~(IsCaptain(NoSihyeon) /\ IsCaptain(BaeYeongyeong))
              /\ \E j \in Teams \ {c} : Len(input.teams[j]) > 0)
          => ~Together(NoSihyeon, BaeYeongyeong)
       /\ ConflictedTeams(NoSihyeon, BaeYeongyeong) = {} => teams = input.teams

\* a resolution that found no member of the same group elsewhere and moved the
\* member away from the captain by the last resort
C20_Witness ==
    /\ pc = "excluded"
    /\ ConflictedTeams(NoSihyeon, BaeYeongyeong) = {1}
    /\ IsCaptain(NoSihyeon)
    /\ \A j \in Teams \ {1} : \A k \in 1 .. Len(input.teams[j]) :
          input.teams[j][k].group = "ob"
    /\ Member(BaeYeongyeong, "girls") \in Range(teams[0])
    /\ ~Together(NoSihyeon, BaeYeongyeong)

-----------------------------------------------------------------------------
(* C21 .. C29: the repair inside assign_members_to_teams *)

\* the two exclusion calls of lines 268-269 or 497-498 have just been made,
\* and no inclusion call after them
ExclusionsJustMade == variant = "streamlit" /\ pc \in {"rebalance", "finetune"} /\ seed % 3 # 0

\* the teams of the roster passed in that held the name
TeamsOf(name) == {i \in Teams : IsIn(input.teams, leaders, i, name)}

\* C22: after one enforce_inclusion_pair(teams, (a, b)) on a roster that has a
\* and b on different teams, at most one of them a captain, and a member on
\* the team of the one who is a captain, a and b are on one team.
C22_SingleInclusionUnites ==
    (pc = "included"
       /\ TeamsOf(NoSihyeon) # {} /\ TeamsOf(BaeYeongyeong) # {}
       /\ TeamsOf(NoSihyeon) # TeamsOf(BaeYeongyeong)
       /\ ~(IsCaptain(NoSihyeon) /\ IsCaptain(BaeYeongyeong))
       /\ \A i \in Teams :
             leaders[i + 1].name \in {NoSihyeon, BaeYeongyeong} => Len(input.teams[i]) >= 1)
    => Together(NoSihyeon, BaeYeongyeong)

\* how often the roster tm lists the member m
OccurrencesIn(tm, m) == SumOver([i \in Teams |-> Count(tm[i], m)], Teams)

\* the (team, index) places whose member differs between two rosters of equal sizes
ChangedPlaces(before, after) ==
    UNION {{<<i, k>> : k \in {h \in 1 .. Len(before[i]) : before[i][h] # after[i][h]}} :
              i \in Teams}

\* C23: a call of enforce_exclusion_pairs or of enforce_inclusion_pair for one
\* pair leaves the size of every team and every captain as they were, changes
\* at most two places of the roster, and every person is listed as often
\* after the call as before.
C23_PureSwaps ==
    [][/\ \A i \in Teams : Len(teams'[i]) = Len(teams[i])
       /\ leaders' = leaders
       /\ Cardinality(ChangedPlaces(teams, teams')) <= 2
       /\ \A name \in People, g \in Groups :
             OccurrencesIn(teams', Member(name, g)) = OccurrencesIn(teams, Member(name, g))]_vars

\* an inclusion call moved a member onto the team of a captain of the pair
C23_Witness ==
    /\ pc = "included"
    /\ teams # input.teams
    /\ IsCaptain(NoSihyeon) \/ IsCaptain(BaeYeongyeong)
    /\ Together(NoSihyeon, BaeYeongyeong)

\* a member of the pair on team c of the roster passed in has a member of its
\* own group on some other team
SameCategoryElsewhere(c) ==
    \E k \in 1 .. Len(input.teams[c]) :
       /\ input.teams[c][k].name \in {NoSihyeon, BaeYeongyeong}
       /\ \E j \in Teams \ {c} : \E h \in 1 .. Len(input.teams[j]) :
             input.teams[j][h].group = input.teams[c][k].group

\* C24: when enforce_exclusion_pairs(teams, [(a, b)]) finds a and b on one team
\* and another team has a member of the group of a non-captain member of the
\* pair, the roster is changed and every team has as many veterans, rookies
\* and others after the call as before; the counts of a team change only when
\* no other team had such a member.
C24_SameCategoryPreferred ==
    (pc = "excluded"
       /\ \E c \in ConflictedTeams(NoSihyeon, BaeYeongyeong) : SameCategoryElsewhere(c))
    => /\ teams # input.teams
       /\ \A i \in Teams, g \in Groups :
             CountGroup(teams[i], {g}) = CountGroup(input.teams[i], {g})

\* the first other team with members has none of the group of the member
\* that is moved, a later team has one
C24_Witness ==
    /\ pc = "excluded"
    /\ ConflictedTeams(NoSihyeon, BaeYeongyeong) = {0}
    /\ SameCategoryElsewhere(0)
    /\ Len(input.teams[1]) > 0
    /\ \A h \in 1 .. Len(input.teams[1]) : \A k \in 1 .. Len(input.teams[0]) :
          input.teams[1][h].group # input.teams[0][k].group
    /\ teams[2] # input.teams[2]

\* C21: after the consecutive calls for (NoSihyeon, BaeYeongyeong) and
\* (NoSihyeon, LeeJinwon) both pairs are separated: the second call does not
\* bring back the conflict the first one resolved (every team having a member
\* to swap with).
C21_ExclusionsCompose ==
    (ExclusionsJustMade /\ \A i \in Teams : Len(teams[i]) >= 1)
    => /\ ~Together(NoSihyeon, BaeYeongyeong)
       /\ ~Together(NoSihyeon, LeeJinwon)

\* C25: the returned roster lists every person of the three pools passed in
\* as a member exactly as often as the pool of that group names the person,
\* and lists nobody else.
C25_NobodyLostOrDuplicated ==
    Returned => \A name \in People, g \in Groups : Occurrences(name, g) = Count(input[g], name)

\* a returned roster after a rebuild that found a veteran to deal again, with
\* a named individual locked in place
C25_Witness ==
    /\ Returned
    /\ Anon \in Range(input.ob)
    /\ \E k \in 1 .. Len(Named) : Named[k] \in Range(input.ob) \cup Range(input.yb)

\* C26: in the returned roster every team has exactly desired_yb_by_team
\* rookies and desired_ob_by_team veterans.
C26_RebuildIsExact ==
    Returned => \A i \in Teams : /\ CountGroup(teams[i], {"yb"}) = desired.yb[i]
                                 /\ CountGroup(teams[i], {"ob"}) = desired.ob[i]

\* C27: when none of the three named individuals is in the input, every team
\* of the returned roster has exactly the planner's quota of veterans, of
\* rookies and of others.
C27_CountNeutralWithoutNames ==
    (Returned /\ \A k \in 1 .. Len(Named) : ~Present(Named[k]))
    => \A i \in Teams, g \in Groups : CountGroup(teams[i], {g}) = targets[i][g]

\* a returned roster of two people of each of the three groups
C27_Witness ==
    /\ Returned
    /\ \A k \in 1 .. Len(Named) : ~Present(Named[k])
    /\ \A g \in Groups : Len(input[g]) = 2

\* the teams that list `name` as a member in the roster tm
MemberTeams(tm, name) == {i \in Teams : \E k \in 1 .. Len(tm[i]) : tm[i][k].name = name}

\* C28: the swap loops, the first rebuild, the fine tuning and the final
\* rebuild leave each of the three named individuals on the team they were on.
C28_LockedStayPut ==
    [][(pc \in {"rebalance", "rebuild", "finetune", "final_rebuild"})
       => (\A k \in 1 .. Len(Named) :
              MemberTeams(teams', Named[k]) = MemberTeams(teams, Named[k]))]_vars

\* a returned roster that was rebuilt around a locked rookie while an
\* anonymous veteran was collected and dealt again
C28_Witness ==
    /\ Returned
    /\ seed % 3 = 0
    /\ MemberTeams(teams, BaeYeongyeong) # {}
    /\ BaeYeongyeong \in Range(input.yb)
    /\ Anon \in Range(input.ob)

\* the call is of streamlit_app.assign_members_to_teams with 8 captains, 4 "M" and 4 "F"
ValidRun == variant = "streamlit" /\ EightFourFour

\* the statement the run stands at has an outcome: the loop or the draw it
\* stands for comes to an end with a value
CanStep ==
    /\ pc = "plan" =>
          SubsetsOfSize(Teams, (Len(ob_list) + Len(yb_list) + Len(girls_list)) % NumTeams) # {}
    /\ pc = "plan_girls" => GirlsTargets(leaders, Len(girls_list), remaining_capacity) # {}
    /\ pc = "plan_male" =>
          MaleTargets(leaders, targets, remaining_capacity, Len(yb_list), Len(ob_list)) # {}
    /\ pc = "distribute" =>
          \E d \in DistributeOutcomes(ob_list, yb_list, girls_list, targets) :
             d.ok => TeamShuffles(d.teams, 0) # {}
    /\ pc = "enforce" => DOMAIN EnforceRules(teams, leaders, seed) = Teams
    /\ pc = "rebalance" => AdjustForLocked(teams, targets).yb \in [Teams -> Nat]
    /\ pc = "rebuild" => rebuild_ob_yb_exact(teams, desired, exclude_names) # {}
    /\ pc = "reenforce" => DOMAIN EnforceRules(teams, leaders, seed) = Teams
    /\ pc = "finetune" => DOMAIN FineTune(teams, targets) = Teams
    /\ pc = "final_rebuild" =>
          rebuild_ob_yb_exact(teams, desired, locked_final(seed) \cup exclude_names) # {}

\* C29: a run of streamlit_app.assign_members_to_teams on 8 captains, 4 "M"
\* and 4 "F", never raises, has a next step wherever it stands before its
\* return, and returns a roster of 8 teams.
C29_RunCompletes ==
    ValidRun
    => /\ pc \in {"start", "plan", "plan_girls", "plan_male", "distribute", "enforce",
                  "rebalance", "rebuild", "reenforce", "finetune", "final_rebuild", "done"}
       /\ outcome \in {"running", "returned"}
       /\ CanStep
       /\ pc = "done" => outcome = "returned" /\ DOMAIN teams = Teams

\* a returned roster in which an exclusion could not be resolved: the member
\* is with the captain and no other team has a member
C29_Witness ==
    /\ Returned
    /\ IsCaptain(NoSihyeon)
    /\ Together(NoSihyeon, BaeYeongyeong)
    /\ \A i \in Teams : Len(teams[i]) > 0 => team_has_name(teams, leaders, i, NoSihyeon)

-----------------------------------------------------------------------------
(* C30: the reveal animation of the desktop window *)

\* C30: whenever the status line says the draw is complete, every team of
\* self.teams lists exactly the members the plan gave it, each once, and no
\* timer callback ever indexes a team that self.teams does not have.
C30_RevealPlacesEachOnce ==
    /\ app.status = "complete"
       => \A i \in Teams :
             /\ i \in DOMAIN app.teams
             /\ \A name \in People, g \in Groups :
                   Count(app.teams[i], Member(name, g)) = Count(app.plan[i], Member(name, g))
    /\ ~app.broken

=============================================================================
